---- MODULE Spec2Model ----
(***************************************************************************)
(* Model of livesport-display: a TM1637 bit-banged display driver          *)
(* (src/src/tm1637.rs) and the three cooperative tasks of src/src/main.rs: *)
(* update_score, update_time and the fetch loop of main, which talk        *)
(* through the two Signal mailboxes SCORE_SIGNAL and TIME_SIGNAL.          *)
(*                                                                         *)
(* Specifications:                                                         *)
(*   Spec     the three tasks and the two mailboxes;                       *)
(*   SpecLive Spec with the order in which the timers fire and with weak   *)
(*            fairness of the tasks, for the liveness properties;          *)
(*   SpecDrv  one driver operation on one display, for arbitrary inputs;   *)
(*   SpecFmt  the digit formatting of the two render tasks, on one input;  *)
(*   SpecLine one driver operation at the level of the two lines: every    *)
(*            write of the clock or data pin, every delay, and the wait    *)
(*            for the acknowledge.                                         *)
(*                                                                         *)
(* Granularity of Spec: the executor is cooperative, so an action runs one  *)
(* task from one await to the next.  A driver call (display, turn_off) has  *)
(* awaits inside, but it reads and writes only the display of its own task, *)
(* so it commutes with the steps of the other tasks and is one action.  A   *)
(* panic (panic_probe) halts the firmware: no action is enabled after it.   *)
(*                                                                         *)
(* A driver call whose controller does not acknowledge a byte never        *)
(* returns (SpecLine shows it at the level of the lines): in Spec the task  *)
(* then stays where it is for ever, score_hung / time_hung record it.       *)
(*                                                                         *)
(* History variables, written by the model and never read by the tasks:    *)
(* score_log, time_log, time_stale, outcome, feed, lost.                   *)
(*                                                                         *)
(* Encoding of Rust values (TLC compares only values of one kind):         *)
(*   Option<T>       None = << >>, Some(x) = << x >>                       *)
(*   (u64, u64)      << a, b >>                                            *)
(*   GameTime        [tag |-> variant name, arg |-> sequence of payload]   *)
(*   Signal<T>       << >> when nothing is signaled, << v >> when          *)
(*                   State::Signaled(v)                                    *)
(***************************************************************************)
EXTENDS Integers, Sequences, FiniteSets, TLC

VARIABLES
    \* ---- Spec: the mailboxes
    score_signal,   \* SCORE_SIGNAL
    time_signal,    \* TIME_SIGNAL
    \* ---- Spec: update_score
    score_pc,       \* position of update_score
    score,          \* its local `score`
    score_log,      \* driver calls and sleeps of update_score since its last wait returned
    score_hung,     \* update_score is in a driver call that waits for an acknowledge
                    \* that never comes
    \* ---- Spec: update_time
    time_pc,        \* position of update_time
    game_time,      \* its local `game_time`
    time_log,       \* driver calls and sleeps of update_time since its last wait returned
    time_stale,     \* blink sleeps begun while TIME_SIGNAL held an unconsumed value
    time_hung,      \* update_time is in a driver call that waits for an acknowledge
                    \* that never comes
    \* ---- Spec: the fetch loop of main
    fetch_pc,       \* position of the fetch loop
    sleep_state,    \* its local `sleep_state`
    sleep_in_secs,  \* its local `sleep_in_secs`
    outcome,        \* how the latest finished iteration ended; "first" before any has
    feed,           \* the GameResult parsed by the latest successful iteration
    lost,           \* the latest publish overwrote, in both mailboxes, a different value
                    \* that nobody had taken
    \* ---- SpecDrv: one driver call
    drv_pc,         \* "idle", or the name of the driver operation that has run
    drv_data,       \* argument `data` of display
    drv_colon,      \* argument `show_colon` of display, `on` of set_brightness
    drv_level,      \* argument `brightness` of display, `level` of set_brightness
    bus,            \* the start/stop/byte calls the operation made, in order
    \* ---- SpecFmt: the digit formatting of the render tasks, on one input
    fmt_pc,         \* "idle", or "score" / "time": whose formatting has run
    fmt_tuple,      \* the (u64, u64) formatted: a score, or (minute, 0), or `when`
    fmt_digits,     \* the four digit slots: Option digits (score), table indexes (time)
    fmt_codes,      \* the four glyph bytes handed to display
    \* ---- SpecLine: one driver operation, one line write or delay at a time
    line_op,        \* the operation called and its arguments
    line_prog,      \* the line writes, delays and waits the operation has still to do
    clk,            \* level the driver puts on the clock pin: 0 low, 1 high
    dio,            \* level the driver puts on the data pin: 0 low, 1 released (open drain)
    peer_low,       \* the display controller pulls the data line low
    sampled,        \* data line levels at the rising clock edges of the current byte
    line_done,      \* the step made last
    line_last,      \* the line write made last
    line_delayed,   \* a delay has run since the last line write
    line_settled    \* a delay has run since a line last changed its level

vars == << score_signal, time_signal, score_pc, score, score_log,
           time_pc, game_time, time_log, time_stale,
           fetch_pc, sleep_state, sleep_in_secs, outcome, feed,
           lost, score_hung, time_hung,
           drv_pc, drv_data, drv_colon, drv_level, bus,
           fmt_pc, fmt_tuple, fmt_digits, fmt_codes,
           line_op, line_prog, clk, dio, peer_low, sampled,
           line_done, line_last, line_delayed, line_settled >>

sys_vars == << score_signal, time_signal, score_pc, score, score_log,
               time_pc, game_time, time_log, time_stale,
               fetch_pc, sleep_state, sleep_in_secs, outcome, feed,
               lost, score_hung, time_hung >>

hang_vars == << score_hung, time_hung >>

drv_vars == << drv_pc, drv_data, drv_colon, drv_level, bus >>

fmt_vars == << fmt_pc, fmt_tuple, fmt_digits, fmt_codes >>

line_vars == << line_op, line_prog, clk, dio, peer_low, sampled,
                line_done, line_last, line_delayed, line_settled >>

----------------------------------------------------------------------------
(* Bounds *)

MaxScore == 1           \* the scores of a feed result are (s, s - 1), s in 1..MaxScore
MaxMinute == 1          \* minutes are in 1..MaxMinute, scheduled times are (m, m - 1)
LogWindow == 4          \* time_log keeps the latest LogWindow entries
StaleCap == 3           \* time_stale stops counting at StaleCap
MaxGlyph == 1           \* SpecDrv draws frame bytes from the glyphs 0..MaxGlyph
MaxFmtValue == 120      \* SpecFmt formats the values 0..MaxFmtValue and a few large ones

----------------------------------------------------------------------------
(* Rust values *)

None == << >>
Some(x) == << x >>

Min(a, b) == IF a < b THEN a ELSE b

\* a & b and a | b on u8
RECURSIVE BitAnd(_, _, _)
BitAnd(a, b, n) ==
    IF n = 0 THEN 0
    ELSE (IF a % 2 = 1 /\ b % 2 = 1 THEN 1 ELSE 0) + 2 * BitAnd(a \div 2, b \div 2, n - 1)

RECURSIVE BitOr(_, _, _)
BitOr(a, b, n) ==
    IF n = 0 THEN 0
    ELSE (IF a % 2 = 1 \/ b % 2 = 1 THEN 1 ELSE 0) + 2 * BitOr(a \div 2, b \div 2, n - 1)

And8(a, b) == BitAnd(a, b, 8)
Or8(a, b) == BitOr(a, b, 8)

----------------------------------------------------------------------------
(* tm1637.rs: constants and the glyph table *)

ADDRESS_AUTO_INCREMENT_1_MODE == 64
ADDRESS_COMMAND_BITS == 192
ADDRESS_COMM_3 == 128
DISPLAY_CONTROL_BRIGHTNESS_MASK == 7
DEFAULT_BRIGHTNESS_LEVEL == 3

\* DIGITS[d] of the source is DIGITS[d + 1] here
DIGITS == << 63, 6, 91, 79, 102, 109, 125, 7, 127, 111, 119, 124, 57, 94, 121, 113 >>

\* an encoder that shows a blank slot as the digit 0
get_digit_code_zero(digit) ==
    IF digit = None THEN DIGITS[1] ELSE DIGITS[digit[1] + 1]

get_digit_code(digit) ==
    IF digit = None THEN 0 ELSE DIGITS[digit[1] + 1]

----------------------------------------------------------------------------
(* tm1637.rs: the driver, as the sequence of start / stop / write_byte calls  *)
(* each operation makes.  The calls of one TM1637 are sequential (the driver  *)
(* is owned by one task and every call is awaited), so the order is total.    *)

start == << [op |-> "start", val |-> 0] >>

stop == << [op |-> "stop", val |-> 0] >>

write_byte(data) == << [op |-> "byte", val |-> data] >>

write_cmd(cmd) == start \o write_byte(cmd) \o stop

write_data(addr, data) == start \o write_byte(addr) \o write_byte(data) \o stop

\* brightness without the power-on bit
brightness_no_power(level, on) == And8(level, DISPLAY_CONTROL_BRIGHTNESS_MASK)

brightness(level, on) ==
    Or8(And8(level, DISPLAY_CONTROL_BRIGHTNESS_MASK), IF on THEN 8 ELSE 0)

set_brightness(level, on) ==
    start \o write_cmd((ADDRESS_COMM_3 + And8(brightness(level, on), 15)) % 256) \o stop

turn_off == set_brightness(0, FALSE)

\* the for loop of display: `index` counts from 0, `address` is the running u8
RECURSIVE display_loop(_, _, _, _)
display_loop(data, show_colon, index, address) ==
    IF index >= Len(data) THEN << >>
    ELSE LET data_item == IF index = 1 /\ show_colon
                          THEN Or8(data[index + 1], 128)
                          ELSE data[index + 1]
         IN  write_data(address, data_item)
                 \o display_loop(data, show_colon, index + 1, (address + 1) % 256)

display(data, show_colon, level) ==
    write_cmd(ADDRESS_AUTO_INCREMENT_1_MODE)
        \o start
        \o display_loop(data, show_colon, 0, ADDRESS_COMMAND_BITS)
        \o set_brightness(level, TRUE)

----------------------------------------------------------------------------
(* tm1637.rs at the level of the lines: each operation as the sequence of    *)
(* pin writes, delays and waits it makes.  A step is a record: k is "clk" or *)
(* "dio" (a write of level v), "delay" or "wait_low"; f names the function   *)
(* that makes it, i is its position in that function, d is the byte of a     *)
(* write_byte.                                                               *)

Prim(k, v) == [k |-> k, v |-> v, f |-> "", i |-> 0, d |-> 0]

NoPrim == Prim("none", 0)

Tag(prims, f, d) ==
    [j \in 1..Len(prims) |-> [prims[j] EXCEPT !.f = f, !.i = j, !.d = d]]

\* lines 66-68
delay == << Prim("delay", 0) >>

\* a bit whose data write comes before the clock is taken low
send_bit_and_delay_early(bit) ==
    << Prim("dio", bit) >> \o delay \o << Prim("clk", 0) >> \o delay
        \o << Prim("clk", 1) >> \o delay

\* lines 85-96
send_bit_and_delay(bit) ==
    << Prim("clk", 0) >> \o delay \o << Prim("dio", bit) >> \o delay
        \o << Prim("clk", 1) >> \o delay

\* lines 99-101: for i in 0..8, (data >> i) & 0x01
RECURSIVE write_byte_loop(_, _)
write_byte_loop(data, i) ==
    IF i >= 8 THEN << >>
    ELSE send_bit_and_delay((data \div (2 ^ i)) % 2) \o write_byte_loop(data, i + 1)

\* lines 98-109
write_byte_lines(data) ==
    Tag(write_byte_loop(data, 0)
            \o << Prim("clk", 0) >> \o delay \o << Prim("dio", 1) >> \o delay
            \o << Prim("clk", 1) >> \o delay \o << Prim("wait_low", 0) >>,
        "write_byte", data)

\* lines 111-119
start_lines ==
    Tag(<< Prim("clk", 1), Prim("dio", 1) >> \o delay \o << Prim("dio", 0) >> \o delay
            \o << Prim("clk", 0) >> \o delay,
        "start", 0)

\* stop without the delay between data low and clock high
stop_lines_fast ==
    Tag(<< Prim("clk", 0) >> \o delay \o << Prim("dio", 0) >>
            \o << Prim("clk", 1) >> \o delay \o << Prim("dio", 1) >> \o delay,
        "stop", 0)

\* lines 121-130
stop_lines ==
    Tag(<< Prim("clk", 0) >> \o delay \o << Prim("dio", 0) >> \o delay
            \o << Prim("clk", 1) >> \o delay \o << Prim("dio", 1) >> \o delay,
        "stop", 0)

\* the line steps of a sequence of start / stop / write_byte calls
RECURSIVE LinesOf(_)
LinesOf(trace) ==
    IF trace = << >> THEN << >>
    ELSE (CASE Head(trace).op = "start" -> start_lines
            [] Head(trace).op = "stop" -> stop_lines
            [] Head(trace).op = "byte" -> write_byte_lines(Head(trace).val))
         \o LinesOf(Tail(trace))

----------------------------------------------------------------------------
(* SpecLine: one call of a driver operation, step by step on the lines *)

NoLineOp == [op |-> "none", arg |-> << >>]

LineBytes == 0..255

LineFrames == {<< 0, 0, 0, 0 >>, << 63, 6, 91, 79 >>}

\* the calls SpecLine makes; display takes data, show_colon, brightness
LineOps ==
    {[op |-> o, arg |-> << >>] : o \in {"start", "stop", "turn_off"}}
        \cup {[op |-> "write_byte", arg |-> << b >>] : b \in LineBytes}
        \cup {[op |-> "write_cmd", arg |-> << c >>] : c \in {64, 128, 139}}
        \cup {[op |-> "write_data", arg |-> << a, b >>] : a \in {192, 195}, b \in {0, 255}}
        \cup {[op |-> "set_brightness", arg |-> << l, on >>] : l \in {0, 3, 7}, on \in {0, 1}}
        \cup {[op |-> "display", arg |-> f \o << c, DEFAULT_BRIGHTNESS_LEVEL >>] :
                  f \in LineFrames, c \in {0, 1}}

\* the start / stop / write_byte calls of a call
CallsOf(call) ==
    CASE call.op = "start" -> start
      [] call.op = "stop" -> stop
      [] call.op = "turn_off" -> turn_off
      [] call.op = "write_byte" -> write_byte(call.arg[1])
      [] call.op = "write_cmd" -> write_cmd(call.arg[1])
      [] call.op = "write_data" -> write_data(call.arg[1], call.arg[2])
      [] call.op = "set_brightness" -> set_brightness(call.arg[1], call.arg[2] = 1)
      [] call.op = "display" ->
            display(SubSeq(call.arg, 1, 4), call.arg[5] = 1, call.arg[6])

\* the level of the data line: low when either end pulls it low
DataLine == IF dio = 0 \/ peer_low THEN 0 ELSE 1

\* clk.set_high() / clk.set_low(); the controller reads the data line on a rising
\* edge and ends its acknowledge on the falling edge that follows it
LineSetClk ==
    /\ line_prog # << >>
    /\ Head(line_prog).k = "clk"
    /\ clk' = Head(line_prog).v
    /\ sampled' = IF Head(line_prog).f = "write_byte" /\ Head(line_prog).i = 1
                  THEN << >>
                  ELSE IF clk = 0 /\ Head(line_prog).v = 1
                       THEN Append(sampled, DataLine)
                       ELSE sampled
    /\ peer_low' = IF Head(line_prog).v = 0 THEN FALSE ELSE peer_low
    /\ line_done' = Head(line_prog)
    /\ line_last' = Head(line_prog)
    /\ line_delayed' = FALSE
    /\ line_settled' = IF clk' # clk THEN FALSE ELSE line_settled
    /\ line_prog' = Tail(line_prog)
    /\ UNCHANGED << line_op, dio >>
    /\ UNCHANGED sys_vars
    /\ UNCHANGED drv_vars
    /\ UNCHANGED fmt_vars

\* dio.set_high() / dio.set_low()
LineSetDio ==
    /\ line_prog # << >>
    /\ Head(line_prog).k = "dio"
    /\ dio' = Head(line_prog).v
    /\ line_done' = Head(line_prog)
    /\ line_last' = Head(line_prog)
    /\ line_delayed' = FALSE
    /\ line_settled' = IF dio' # dio THEN FALSE ELSE line_settled
    /\ line_prog' = Tail(line_prog)
    /\ UNCHANGED << line_op, clk, peer_low, sampled >>
    /\ UNCHANGED sys_vars
    /\ UNCHANGED drv_vars
    /\ UNCHANGED fmt_vars

\* self.delay().await
LineDelay ==
    /\ line_prog # << >>
    /\ Head(line_prog).k = "delay"
    /\ line_done' = Head(line_prog)
    /\ line_delayed' = TRUE
    /\ line_settled' = TRUE
    /\ line_prog' = Tail(line_prog)
    /\ UNCHANGED << line_op, clk, dio, peer_low, sampled, line_last >>
    /\ UNCHANGED sys_vars
    /\ UNCHANGED drv_vars
    /\ UNCHANGED fmt_vars

\* line 108: self.dio.wait_for_low().await returns once the data line is low
LineWaitLow ==
    /\ line_prog # << >>
    /\ Head(line_prog).k = "wait_low"
    /\ DataLine = 0
    /\ line_done' = Head(line_prog)
    /\ line_prog' = Tail(line_prog)
    /\ UNCHANGED << line_op, clk, dio, peer_low, sampled, line_last,
                    line_delayed, line_settled >>
    /\ UNCHANGED sys_vars
    /\ UNCHANGED drv_vars
    /\ UNCHANGED fmt_vars

\* the controller acknowledges: it pulls the data line low while the driver waits
PeerPull ==
    /\ line_prog # << >>
    /\ Head(line_prog).k = "wait_low"
    /\ ~peer_low
    /\ peer_low' = TRUE
    /\ UNCHANGED << line_op, line_prog, clk, dio, sampled, line_done, line_last,
                    line_delayed, line_settled >>
    /\ UNCHANGED sys_vars
    /\ UNCHANGED drv_vars
    /\ UNCHANGED fmt_vars

----------------------------------------------------------------------------
(* SpecDrv: one call of a driver operation on an idle display *)

\* bytes a frame may carry: blank, the glyphs 0..MaxGlyph, and the same with bit 7 set
FrameBytes ==
    {0} \cup {DIGITS[g + 1] : g \in 0..MaxGlyph}
        \cup {DIGITS[g + 1] + 128 : g \in 0..MaxGlyph}

Frames == [1..4 -> FrameBytes]

Levels == 0..DISPLAY_CONTROL_BRIGHTNESS_MASK

DrvDisplay ==
    /\ drv_pc = "idle"
    /\ bus' = display(drv_data, drv_colon, drv_level)
    /\ drv_pc' = "display"
    /\ UNCHANGED << drv_data, drv_colon, drv_level >>
    /\ UNCHANGED sys_vars
    /\ UNCHANGED fmt_vars
    /\ UNCHANGED line_vars

DrvSetBrightness ==
    /\ drv_pc = "idle"
    /\ bus' = set_brightness(drv_level, drv_colon)
    /\ drv_pc' = "set_brightness"
    /\ UNCHANGED << drv_data, drv_colon, drv_level >>
    /\ UNCHANGED sys_vars
    /\ UNCHANGED fmt_vars
    /\ UNCHANGED line_vars

DrvTurnOff ==
    /\ drv_pc = "idle"
    /\ bus' = turn_off
    /\ drv_pc' = "turn_off"
    /\ UNCHANGED << drv_data, drv_colon, drv_level >>
    /\ UNCHANGED sys_vars
    /\ UNCHANGED fmt_vars
    /\ UNCHANGED line_vars

----------------------------------------------------------------------------
(* main.rs: values of the feed *)

WillBePlayed(when) == [tag |-> "WillBePlayed", arg |-> IF when = None THEN << >> ELSE when[1]]
Played == [tag |-> "Played", arg |-> << >>]
BreakAfter(minute) == [tag |-> "BreakAfter", arg |-> << minute >>]
Playing(minute) == [tag |-> "Playing", arg |-> << minute >>]

\* the locals `game_time` and `score` before their first binding
Unset == [tag |-> "Unset", arg |-> << >>]
NoScore == << 0, 0, 0 >>

Minutes == 1..MaxMinute

GameTime ==
    {WillBePlayed(None), Played}
        \cup {WillBePlayed(Some(<< m, m - 1 >>)) : m \in Minutes}
        \cup {BreakAfter(m) : m \in Minutes}
        \cup {Playing(m) : m \in Minutes}

GameResult ==
    {[my_team_score |-> s, opponent_team_score |-> s - 1, game_time |-> g] :
        s \in 1..MaxScore, g \in GameTime}

----------------------------------------------------------------------------
(* embassy Signal, as main.rs uses it: signal, wait, signaled *)

\* a signal that keeps an unconsumed value instead of replacing it
signal_keep_first(slot, val) == IF slot = << >> THEN << val >> ELSE slot

\* Signal::signal(val): the slot now holds val, whatever it held
signal(slot, val) == << val >>

\* Signal::signaled(): a value is present; the value stays
signaled(slot) == slot # << >>

\* Signal::wait(), when it returns: the value taken
wait_value(slot) == slot[1]

\* Signal::wait(), when it returns: the slot left behind
wait_slot(slot) == << >>

----------------------------------------------------------------------------
(* Log entries of the render tasks *)

DisplayEv(data, show_colon, level) ==
    [ev |-> "display", data |-> data, colon |-> show_colon, n |-> level]

TurnOffEv == [ev |-> "turn_off", data |-> << >>, colon |-> FALSE, n |-> 0]

SleepEv(millis) == [ev |-> "sleep", data |-> << >>, colon |-> FALSE, n |-> millis]

\* append e, keeping the latest w entries
Push(log, e, w) ==
    IF Len(log) < w THEN Append(log, e) ELSE Append(Tail(log), e)

\* publishing val into slot destroys a different value that was never taken
Overwrites(slot, val) == slot # << >> /\ slot[1] # val

\* the firmware runs until a task panics (panic_probe halts the core)
Running == fetch_pc # "panicked"

----------------------------------------------------------------------------
(* main.rs: update_score *)

\* the digit slots without the trim of the trailing zero
score_digits_no_trail(my_team_score, opponent_team_score) ==
    LET digits == << Some((my_team_score \div 10) % 10),
                     Some(my_team_score % 10),
                     Some((opponent_team_score \div 10) % 10),
                     Some(opponent_team_score % 10) >>
    IN  IF digits[1] = Some(0) THEN [digits EXCEPT ![1] = None] ELSE digits

\* lines 81-96: the four digit slots of a score
score_digits(my_team_score, opponent_team_score) ==
    LET digits == << Some((my_team_score \div 10) % 10),
                     Some(my_team_score % 10),
                     Some((opponent_team_score \div 10) % 10),
                     Some(opponent_team_score % 10) >>
        \* trim leading zero
        lead == IF digits[1] = Some(0) THEN [digits EXCEPT ![1] = None] ELSE digits
        \* trim trailing zero
        trail == IF lead[3] = Some(0)
                 THEN [lead EXCEPT ![3] = lead[4], ![4] = None]
                 ELSE lead
    IN  trail

\* lines 98-101
digit_codes(digits) == [i \in 1..Len(digits) |-> get_digit_code(digits[i])]

EMPTY_DIGITS == << 0, 0, 0, 0 >>

\* a score task that opens with a blank frame instead of turn_off
ScoreTurnOff_blank ==
    /\ Running
    /\ ~score_hung
    /\ score_pc = "init"
    /\ score_log' = Append(score_log, DisplayEv(EMPTY_DIGITS, FALSE, DEFAULT_BRIGHTNESS_LEVEL))
    /\ score_pc' = "wait"
    /\ UNCHANGED << score_signal, time_signal, score, time_pc, game_time, time_log,
                    time_stale, fetch_pc, sleep_state, sleep_in_secs,
                    outcome, feed, lost >>
    /\ UNCHANGED hang_vars
    /\ UNCHANGED drv_vars
    /\ UNCHANGED fmt_vars
    /\ UNCHANGED line_vars

\* line 76: turn_off before the loop
ScoreTurnOff ==
    /\ Running
    /\ ~score_hung
    /\ score_pc = "init"
    /\ score_log' = Append(score_log, TurnOffEv)
    /\ score_pc' = "wait"
    /\ UNCHANGED << score_signal, time_signal, score, time_pc, game_time, time_log,
                    time_stale, fetch_pc, sleep_state, sleep_in_secs,
                    outcome, feed, lost >>
    /\ UNCHANGED hang_vars
    /\ UNCHANGED drv_vars
    /\ UNCHANGED fmt_vars
    /\ UNCHANGED line_vars

\* lines 79-80: SCORE_SIGNAL.wait() returns; the if let picks the branch
ScoreWait ==
    /\ Running
    /\ ~score_hung
    /\ score_pc = "wait"
    /\ signaled(score_signal)
    /\ score' = wait_value(score_signal)
    /\ score_signal' = wait_slot(score_signal)
    /\ score_log' = << >>
    /\ score_pc' = IF wait_value(score_signal) # None THEN "show" ELSE "pulse_on"
    /\ UNCHANGED << time_signal, time_pc, game_time, time_log,
                    time_stale, fetch_pc, sleep_state, sleep_in_secs,
                    outcome, feed, lost >>
    /\ UNCHANGED hang_vars
    /\ UNCHANGED drv_vars
    /\ UNCHANGED fmt_vars
    /\ UNCHANGED line_vars

\* lines 81-105: Some((my_team_score, opponent_team_score))
ScoreShow ==
    /\ Running
    /\ ~score_hung
    /\ score_pc = "show"
    /\ score_log' = Append(score_log,
                           DisplayEv(digit_codes(score_digits(score[1], score[2])),
                                     TRUE, DEFAULT_BRIGHTNESS_LEVEL))
    /\ score_pc' = "wait"
    /\ UNCHANGED << score_signal, time_signal, score, time_pc, game_time, time_log,
                    time_stale, fetch_pc, sleep_state, sleep_in_secs,
                    outcome, feed, lost >>
    /\ UNCHANGED hang_vars
    /\ UNCHANGED drv_vars
    /\ UNCHANGED fmt_vars
    /\ UNCHANGED line_vars

\* lines 109-111: None, first display
ScorePulseOn ==
    /\ Running
    /\ ~score_hung
    /\ score_pc = "pulse_on"
    /\ score_log' = Append(score_log, DisplayEv(EMPTY_DIGITS, TRUE, DEFAULT_BRIGHTNESS_LEVEL))
    /\ score_pc' = "pulse_sleep"
    /\ UNCHANGED << score_signal, time_signal, score, time_pc, game_time, time_log,
                    time_stale, fetch_pc, sleep_state, sleep_in_secs,
                    outcome, feed, lost >>
    /\ UNCHANGED hang_vars
    /\ UNCHANGED drv_vars
    /\ UNCHANGED fmt_vars
    /\ UNCHANGED line_vars

\* line 112: Timer::after(Duration::from_secs(1))
ScorePulseSleep ==
    /\ Running
    /\ ~score_hung
    /\ score_pc = "pulse_sleep"
    /\ score_log' = Append(score_log, SleepEv(1000))
    /\ score_pc' = "pulse_off"
    /\ UNCHANGED << score_signal, time_signal, score, time_pc, game_time, time_log,
                    time_stale, fetch_pc, sleep_state, sleep_in_secs,
                    outcome, feed, lost >>
    /\ UNCHANGED hang_vars
    /\ UNCHANGED drv_vars
    /\ UNCHANGED fmt_vars
    /\ UNCHANGED line_vars

\* the second display of the pulse, followed by another pulse
ScorePulseOff_again ==
    /\ Running
    /\ ~score_hung
    /\ score_pc = "pulse_off"
    /\ score_log' = Append(score_log, DisplayEv(EMPTY_DIGITS, FALSE, DEFAULT_BRIGHTNESS_LEVEL))
    /\ score_pc' = "pulse_on"
    /\ UNCHANGED << score_signal, time_signal, score, time_pc, game_time, time_log,
                    time_stale, fetch_pc, sleep_state, sleep_in_secs,
                    outcome, feed, lost >>
    /\ UNCHANGED hang_vars
    /\ UNCHANGED drv_vars
    /\ UNCHANGED fmt_vars
    /\ UNCHANGED line_vars

\* lines 113-115: None, second display
ScorePulseOff ==
    /\ Running
    /\ ~score_hung
    /\ score_pc = "pulse_off"
    /\ score_log' = Append(score_log, DisplayEv(EMPTY_DIGITS, FALSE, DEFAULT_BRIGHTNESS_LEVEL))
    /\ score_pc' = "wait"
    /\ UNCHANGED << score_signal, time_signal, score, time_pc, game_time, time_log,
                    time_stale, fetch_pc, sleep_state, sleep_in_secs,
                    outcome, feed, lost >>
    /\ UNCHANGED hang_vars
    /\ UNCHANGED drv_vars
    /\ UNCHANGED fmt_vars
    /\ UNCHANGED line_vars

----------------------------------------------------------------------------
(* main.rs: update_time *)

COLON_BLINK_INTERVAL == 500

tuple_to_digits(tuple) ==
    << DIGITS[((tuple[1] \div 10) % 10) + 1],
       DIGITS[(tuple[1] % 10) + 1],
       DIGITS[((tuple[2] \div 10) % 10) + 1],
       DIGITS[(tuple[2] % 10) + 1] >>

\* a match whose BreakAfter arm blinks like Playing
TimeDispatch_blink(gt) ==
    CASE gt.tag = "Played" -> "off"
      [] gt.tag = "WillBePlayed" -> IF gt.arg # << >> THEN "static" ELSE "off"
      [] gt.tag = "Playing" -> "play_on"
      [] gt.tag = "BreakAfter" -> "play_on"

\* the arm of the match at line 137 that a value selects
TimeDispatch(gt) ==
    CASE gt.tag = "Played" -> "off"
      [] gt.tag = "WillBePlayed" -> IF gt.arg # << >> THEN "static" ELSE "off"
      [] gt.tag = "Playing" -> "play_on"
      [] gt.tag = "BreakAfter" -> "static"

\* the frame of the arms that display once (lines 145 and 174) or blink (line 155)
TimeDigits(gt) ==
    IF gt.tag = "WillBePlayed"
    THEN tuple_to_digits(<< gt.arg[1], gt.arg[2] >>)
    ELSE tuple_to_digits(<< gt.arg[1], 0 >>)

\* a sleep begins: count it if a published value is waiting
Stale(n) == IF signaled(time_signal) THEN Min(n + 1, StaleCap) ELSE n

\* line 133: turn_off before the loop
TimeTurnOff ==
    /\ Running
    /\ ~time_hung
    /\ time_pc = "init"
    /\ time_log' = Push(time_log, TurnOffEv, LogWindow)
    /\ time_pc' = "wait"
    /\ UNCHANGED << score_signal, time_signal, score_pc, score, score_log, game_time,
                    time_stale, fetch_pc, sleep_state, sleep_in_secs,
                    outcome, feed, lost >>
    /\ UNCHANGED hang_vars
    /\ UNCHANGED drv_vars
    /\ UNCHANGED fmt_vars
    /\ UNCHANGED line_vars

\* lines 136-137: TIME_SIGNAL.wait() returns; the match picks the arm
TimeWait ==
    /\ Running
    /\ ~time_hung
    /\ time_pc = "wait"
    /\ signaled(time_signal)
    /\ game_time' = wait_value(time_signal)
    /\ time_signal' = wait_slot(time_signal)
    /\ time_log' = << >>
    /\ time_stale' = 0
    /\ time_pc' = TimeDispatch(wait_value(time_signal))
    /\ UNCHANGED << score_signal, score_pc, score, score_log,
                    fetch_pc, sleep_state, sleep_in_secs,
                    outcome, feed, lost >>
    /\ UNCHANGED hang_vars
    /\ UNCHANGED drv_vars
    /\ UNCHANGED fmt_vars
    /\ UNCHANGED line_vars

\* lines 139 and 151: Played, WillBePlayed(None)
TimeOff ==
    /\ Running
    /\ ~time_hung
    /\ time_pc = "off"
    /\ time_log' = Push(time_log, TurnOffEv, LogWindow)
    /\ time_pc' = "wait"
    /\ UNCHANGED << score_signal, time_signal, score_pc, score, score_log, game_time,
                    time_stale, fetch_pc, sleep_state, sleep_in_secs,
                    outcome, feed, lost >>
    /\ UNCHANGED hang_vars
    /\ UNCHANGED drv_vars
    /\ UNCHANGED fmt_vars
    /\ UNCHANGED line_vars

\* lines 143-149 and 173-175: WillBePlayed(Some(when)), BreakAfter(minute)
TimeStatic ==
    /\ Running
    /\ ~time_hung
    /\ time_pc = "static"
    /\ time_log' = Push(time_log,
                        DisplayEv(TimeDigits(game_time), TRUE, DEFAULT_BRIGHTNESS_LEVEL),
                        LogWindow)
    /\ time_pc' = "wait"
    /\ UNCHANGED << score_signal, time_signal, score_pc, score, score_log, game_time,
                    time_stale, fetch_pc, sleep_state, sleep_in_secs,
                    outcome, feed, lost >>
    /\ UNCHANGED hang_vars
    /\ UNCHANGED drv_vars
    /\ UNCHANGED fmt_vars
    /\ UNCHANGED line_vars

\* lines 158-161: Playing, display with the colon, then the first sleep begins
TimePlayOn ==
    /\ Running
    /\ ~time_hung
    /\ time_pc = "play_on"
    /\ time_log' = Push(time_log,
                        DisplayEv(TimeDigits(game_time), TRUE, DEFAULT_BRIGHTNESS_LEVEL),
                        LogWindow)
    /\ time_stale' = Stale(time_stale)
    /\ time_pc' = "play_sleep1"
    /\ UNCHANGED << score_signal, time_signal, score_pc, score, score_log, game_time,
                    fetch_pc, sleep_state, sleep_in_secs,
                    outcome, feed, lost >>
    /\ UNCHANGED hang_vars
    /\ UNCHANGED drv_vars
    /\ UNCHANGED fmt_vars
    /\ UNCHANGED line_vars

\* line 161: the first sleep ends
TimePlaySleep1 ==
    /\ Running
    /\ ~time_hung
    /\ time_pc = "play_sleep1"
    /\ time_log' = Push(time_log, SleepEv(COLON_BLINK_INTERVAL), LogWindow)
    /\ time_pc' = "play_off"
    /\ UNCHANGED << score_signal, time_signal, score_pc, score, score_log, game_time,
                    time_stale, fetch_pc, sleep_state, sleep_in_secs,
                    outcome, feed, lost >>
    /\ UNCHANGED hang_vars
    /\ UNCHANGED drv_vars
    /\ UNCHANGED fmt_vars
    /\ UNCHANGED line_vars

\* the second display of the blink cycle with the colon left on
TimePlayOff_colon ==
    /\ Running
    /\ ~time_hung
    /\ time_pc = "play_off"
    /\ time_log' = Push(time_log,
                        DisplayEv(TimeDigits(game_time), TRUE, DEFAULT_BRIGHTNESS_LEVEL),
                        LogWindow)
    /\ time_stale' = Stale(time_stale)
    /\ time_pc' = "play_sleep2"
    /\ UNCHANGED << score_signal, time_signal, score_pc, score, score_log, game_time,
                    fetch_pc, sleep_state, sleep_in_secs,
                    outcome, feed, lost >>
    /\ UNCHANGED hang_vars
    /\ UNCHANGED drv_vars
    /\ UNCHANGED fmt_vars
    /\ UNCHANGED line_vars

\* lines 162-165: display without the colon, then the second sleep begins
TimePlayOff ==
    /\ Running
    /\ ~time_hung
    /\ time_pc = "play_off"
    /\ time_log' = Push(time_log,
                        DisplayEv(TimeDigits(game_time), FALSE, DEFAULT_BRIGHTNESS_LEVEL),
                        LogWindow)
    /\ time_stale' = Stale(time_stale)
    /\ time_pc' = "play_sleep2"
    /\ UNCHANGED << score_signal, time_signal, score_pc, score, score_log, game_time,
                    fetch_pc, sleep_state, sleep_in_secs,
                    outcome, feed, lost >>
    /\ UNCHANGED hang_vars
    /\ UNCHANGED drv_vars
    /\ UNCHANGED fmt_vars
    /\ UNCHANGED line_vars

\* a blink loop that never looks at the mailbox
blink_break_never == FALSE

\* the test of line 167: leave the blink loop?
blink_break == signaled(time_signal)

\* a test of the mailbox that takes the value it finds
TimePlaySleep2_takes ==
    /\ Running
    /\ ~time_hung
    /\ time_pc = "play_sleep2"
    /\ time_log' = Push(time_log, SleepEv(COLON_BLINK_INTERVAL), LogWindow)
    /\ time_pc' = IF blink_break THEN "wait" ELSE "play_on"
    /\ time_signal' = << >>
    /\ UNCHANGED << score_signal, score_pc, score, score_log, game_time,
                    time_stale, fetch_pc, sleep_state, sleep_in_secs,
                    outcome, feed, lost >>
    /\ UNCHANGED hang_vars
    /\ UNCHANGED drv_vars
    /\ UNCHANGED fmt_vars
    /\ UNCHANGED line_vars

\* lines 165-170: the second sleep ends, then `if TIME_SIGNAL.signaled() { break; }`
TimePlaySleep2 ==
    /\ Running
    /\ ~time_hung
    /\ time_pc = "play_sleep2"
    /\ time_log' = Push(time_log, SleepEv(COLON_BLINK_INTERVAL), LogWindow)
    /\ time_pc' = IF blink_break THEN "wait" ELSE "play_on"
    /\ UNCHANGED << score_signal, time_signal, score_pc, score, score_log, game_time,
                    time_stale, fetch_pc, sleep_state, sleep_in_secs,
                    outcome, feed, lost >>
    /\ UNCHANGED hang_vars
    /\ UNCHANGED drv_vars
    /\ UNCHANGED fmt_vars
    /\ UNCHANGED line_vars

----------------------------------------------------------------------------
(* tm1637.rs line 108 inside the render tasks: a driver call that never returns *)

\* positions at which update_score / update_time are about to make a driver call
ScoreDriverPcs == {"init", "show", "pulse_on", "pulse_off"}

TimeDriverPcs == {"init", "off", "static", "play_on", "play_off"}

\* the score display does not acknowledge: update_score stays in wait_for_low
ScoreHang ==
    /\ Running
    /\ ~score_hung
    /\ score_pc \in ScoreDriverPcs
    /\ score_hung' = TRUE
    /\ UNCHANGED << score_signal, time_signal, score_pc, score, score_log,
                    time_pc, game_time, time_log, time_stale,
                    fetch_pc, sleep_state, sleep_in_secs, outcome, feed, lost,
                    time_hung >>
    /\ UNCHANGED drv_vars
    /\ UNCHANGED fmt_vars
    /\ UNCHANGED line_vars

\* the time display does not acknowledge: update_time stays in wait_for_low
TimeHang ==
    /\ Running
    /\ ~time_hung
    /\ time_pc \in TimeDriverPcs
    /\ time_hung' = TRUE
    /\ UNCHANGED << score_signal, time_signal, score_pc, score, score_log,
                    time_pc, game_time, time_log, time_stale,
                    fetch_pc, sleep_state, sleep_in_secs, outcome, feed, lost,
                    score_hung >>
    /\ UNCHANGED drv_vars
    /\ UNCHANGED fmt_vars
    /\ UNCHANGED line_vars

----------------------------------------------------------------------------
(* SpecFmt: the formatting of update_score (lines 81-101) and of update_time *)
(* (tuple_to_digits) applied to one pair of u64 values                       *)

\* u64 values formatted: a contiguous range that passes 99, and some large ones
\* (TLC integers end at 2^31 - 1)
FmtValues == (0..MaxFmtValue) \cup {999, 1000, 65535, 2147483647}

FmtTuples == {<< a, b >> : a \in FmtValues, b \in FmtValues}

\* the table indexes of tuple_to_digits with the tens taken without % 10
tuple_index_tens(tuple) ==
    << tuple[1] \div 10, tuple[1] % 10, tuple[2] \div 10, tuple[2] % 10 >>

\* lines 122-125: the four indexes with which tuple_to_digits reads DIGITS
tuple_index(tuple) ==
    << (tuple[1] \div 10) % 10,
       tuple[1] % 10,
       (tuple[2] \div 10) % 10,
       tuple[2] % 10 >>

\* lines 81-101 of update_score on (my_team_score, opponent_team_score)
FmtScore ==
    /\ fmt_pc = "idle"
    /\ fmt_digits' = score_digits(fmt_tuple[1], fmt_tuple[2])
    /\ fmt_codes' = digit_codes(score_digits(fmt_tuple[1], fmt_tuple[2]))
    /\ fmt_pc' = "score"
    /\ UNCHANGED fmt_tuple
    /\ UNCHANGED sys_vars
    /\ UNCHANGED drv_vars
    /\ UNCHANGED line_vars

\* tuple_to_digits as update_time calls it
FmtTime ==
    /\ fmt_pc = "idle"
    /\ fmt_digits' = [i \in 1..4 |-> Some(tuple_index(fmt_tuple)[i])]
    /\ fmt_codes' = tuple_to_digits(fmt_tuple)
    /\ fmt_pc' = "time"
    /\ UNCHANGED fmt_tuple
    /\ UNCHANGED sys_vars
    /\ UNCHANGED drv_vars
    /\ UNCHANGED line_vars

----------------------------------------------------------------------------
(* main.rs: the fetch loop of main, lines 284-366 *)

\* the backoff table with the two delays exchanged
sleep_secs_swapped(state) ==
    CASE state = "FirstIteration" -> 0
      [] state = "AfterSuccess" -> 30
      [] state = "AfterFailure" -> 5

\* lines 297-301
sleep_secs(state) ==
    CASE state = "FirstIteration" -> 0
      [] state = "AfterSuccess" -> 5
      [] state = "AfterFailure" -> 30

\* a score sample that ignores the game time
score_sample_always(game_result) ==
    << game_result.my_team_score, game_result.opponent_team_score >>

\* lines 350-354
score_sample(game_result) ==
    IF game_result.game_time.tag = "WillBePlayed"
    THEN None
    ELSE << game_result.my_team_score, game_result.opponent_team_score >>

\* the error arms of lines 321-325, 330-334, 339-343, 358-362: the state they leave
failure_state == "AfterFailure"

\* line 365
success_state == "AfterSuccess"

\* lines 297-303: the backoff sleep that opens an iteration
FetchSleep ==
    /\ fetch_pc = "sleep"
    /\ sleep_in_secs' = sleep_secs(sleep_state)
    /\ fetch_pc' = "request"
    /\ UNCHANGED << score_signal, time_signal, score_pc, score, score_log,
                    time_pc, game_time, time_log, time_stale,
                    sleep_state, outcome, feed, lost >>
    /\ UNCHANGED hang_vars
    /\ UNCHANGED drv_vars
    /\ UNCHANGED fmt_vars
    /\ UNCHANGED line_vars

\* lines 319-320: http_client.request(..) is Ok
FetchRequestOk ==
    /\ fetch_pc = "request"
    /\ fetch_pc' = "send"
    /\ UNCHANGED << score_signal, time_signal, score_pc, score, score_log,
                    time_pc, game_time, time_log, time_stale,
                    sleep_state, sleep_in_secs, outcome, feed,
                    lost >>
    /\ UNCHANGED hang_vars
    /\ UNCHANGED drv_vars
    /\ UNCHANGED fmt_vars
    /\ UNCHANGED line_vars

\* lines 321-325: http_client.request(..) is Err
FetchRequestErr ==
    /\ fetch_pc = "request"
    /\ sleep_state' = failure_state
    /\ outcome' = "failure"
    /\ fetch_pc' = "sleep"
    /\ UNCHANGED << score_signal, time_signal, score_pc, score, score_log,
                    time_pc, game_time, time_log, time_stale,
                    sleep_in_secs, feed, lost >>
    /\ UNCHANGED hang_vars
    /\ UNCHANGED drv_vars
    /\ UNCHANGED fmt_vars
    /\ UNCHANGED line_vars

\* lines 328-329: request.send(..) is Ok
FetchSendOk ==
    /\ fetch_pc = "send"
    /\ fetch_pc' = "body"
    /\ UNCHANGED << score_signal, time_signal, score_pc, score, score_log,
                    time_pc, game_time, time_log, time_stale,
                    sleep_state, sleep_in_secs, outcome, feed,
                    lost >>
    /\ UNCHANGED hang_vars
    /\ UNCHANGED drv_vars
    /\ UNCHANGED fmt_vars
    /\ UNCHANGED line_vars

\* lines 330-334: request.send(..) is Err
FetchSendErr ==
    /\ fetch_pc = "send"
    /\ sleep_state' = failure_state
    /\ outcome' = "failure"
    /\ fetch_pc' = "sleep"
    /\ UNCHANGED << score_signal, time_signal, score_pc, score, score_log,
                    time_pc, game_time, time_log, time_stale,
                    sleep_in_secs, feed, lost >>
    /\ UNCHANGED hang_vars
    /\ UNCHANGED drv_vars
    /\ UNCHANGED fmt_vars
    /\ UNCHANGED line_vars

\* line 337: read_to_end() is Err and unwrap() panics; the iteration never ends
FetchBodyErr ==
    /\ fetch_pc = "body"
    /\ fetch_pc' = "panicked"
    /\ UNCHANGED << score_signal, time_signal, score_pc, score, score_log,
                    time_pc, game_time, time_log, time_stale,
                    sleep_state, sleep_in_secs, outcome, feed,
                    lost >>
    /\ UNCHANGED hang_vars
    /\ UNCHANGED drv_vars
    /\ UNCHANGED fmt_vars
    /\ UNCHANGED line_vars

\* lines 337-343: the body is read, from_utf8 is Err
FetchDecodeErr ==
    /\ fetch_pc = "body"
    /\ sleep_state' = failure_state
    /\ outcome' = "failure"
    /\ fetch_pc' = "sleep"
    /\ UNCHANGED << score_signal, time_signal, score_pc, score, score_log,
                    time_pc, game_time, time_log, time_stale,
                    sleep_in_secs, feed, lost >>
    /\ UNCHANGED hang_vars
    /\ UNCHANGED drv_vars
    /\ UNCHANGED fmt_vars
    /\ UNCHANGED line_vars

\* a parse error that blanks the score display
FetchParseErr_clears ==
    /\ fetch_pc = "body"
    /\ score_signal' = signal(score_signal, None)
    /\ sleep_state' = failure_state
    /\ outcome' = "failure"
    /\ fetch_pc' = "sleep"
    /\ UNCHANGED << time_signal, score_pc, score, score_log,
                    time_pc, game_time, time_log, time_stale,
                    sleep_in_secs, feed, lost >>
    /\ UNCHANGED hang_vars
    /\ UNCHANGED drv_vars
    /\ UNCHANGED fmt_vars
    /\ UNCHANGED line_vars

\* lines 348, 358-362: the body is text, from_slice is Err
FetchParseErr ==
    /\ fetch_pc = "body"
    /\ sleep_state' = failure_state
    /\ outcome' = "failure"
    /\ fetch_pc' = "sleep"
    /\ UNCHANGED << score_signal, time_signal, score_pc, score, score_log,
                    time_pc, game_time, time_log, time_stale,
                    sleep_in_secs, feed, lost >>
    /\ UNCHANGED hang_vars
    /\ UNCHANGED drv_vars
    /\ UNCHANGED fmt_vars
    /\ UNCHANGED line_vars

\* a successful iteration whose second publish may not happen
FetchParseOk_score_only ==
    /\ fetch_pc = "body"
    /\ \E game_result \in GameResult :
          /\ score_signal' = signal(score_signal, score_sample(game_result))
          /\ \E both \in BOOLEAN :
                time_signal' = IF both THEN signal(time_signal, game_result.game_time)
                               ELSE time_signal
          /\ feed' = Some(game_result)
          /\ lost' = (/\ Overwrites(score_signal, score_sample(game_result))
                      /\ Overwrites(time_signal, game_result.game_time))
    /\ sleep_state' = success_state
    /\ outcome' = "success"
    /\ fetch_pc' = "sleep"
    /\ UNCHANGED << score_pc, score, score_log,
                    time_pc, game_time, time_log, time_stale,
                    sleep_in_secs >>
    /\ UNCHANGED hang_vars
    /\ UNCHANGED drv_vars
    /\ UNCHANGED fmt_vars
    /\ UNCHANGED line_vars

\* a successful iteration that publishes only into empty mailboxes
FetchParseOk_waits ==
    /\ fetch_pc = "body"
    /\ ~signaled(score_signal)
    /\ ~signaled(time_signal)
    /\ \E game_result \in GameResult :
          /\ score_signal' = signal(score_signal, score_sample(game_result))
          /\ time_signal' = signal(time_signal, game_result.game_time)
          /\ feed' = Some(game_result)
          /\ lost' = (/\ Overwrites(score_signal, score_sample(game_result))
                      /\ Overwrites(time_signal, game_result.game_time))
    /\ sleep_state' = success_state
    /\ outcome' = "success"
    /\ fetch_pc' = "sleep"
    /\ UNCHANGED << score_pc, score, score_log,
                    time_pc, game_time, time_log, time_stale,
                    sleep_in_secs >>
    /\ UNCHANGED hang_vars
    /\ UNCHANGED drv_vars
    /\ UNCHANGED fmt_vars
    /\ UNCHANGED line_vars

\* lines 348-357, 365: from_slice is Ok((game_result, _)); both publishes and the
\* assignment of line 365 run with no await between them
FetchParseOk ==
    /\ fetch_pc = "body"
    /\ \E game_result \in GameResult :
          /\ score_signal' = signal(score_signal, score_sample(game_result))
          /\ time_signal' = signal(time_signal, game_result.game_time)
          /\ feed' = Some(game_result)
          /\ lost' = (/\ Overwrites(score_signal, score_sample(game_result))
                      /\ Overwrites(time_signal, game_result.game_time))
    /\ sleep_state' = success_state
    /\ outcome' = "success"
    /\ fetch_pc' = "sleep"
    /\ UNCHANGED << score_pc, score, score_log,
                    time_pc, game_time, time_log, time_stale,
                    sleep_in_secs >>
    /\ UNCHANGED hang_vars
    /\ UNCHANGED drv_vars
    /\ UNCHANGED fmt_vars
    /\ UNCHANGED line_vars

----------------------------------------------------------------------------
(* The order of the timers.  A render task answers a publish within about    *)
(* 1.1 s: a display call is some 330 delays of 100 us (tm1637.rs:4), the     *)
(* pulse of update_score sleeps 1 s (main.rs:112) and a blink cycle of       *)
(* update_time sleeps twice 500 ms (main.rs:131) before it tests the         *)
(* mailbox.  The fetch loop sleeps 5 s or 30 s before every iteration but    *)
(* the first (main.rs:297-303), so such a sleep ends only after the render   *)
(* tasks have taken what was published before it began and have shown it.   *)

\* update_score has nothing left to do before a timer of 5 s fires
ScoreSettled ==
    \/ score_hung
    \/ score_pc = "wait" /\ ~signaled(score_signal)

\* update_time has nothing left to do before a timer of 5 s fires, or blinks
TimeSettled ==
    \/ time_hung
    \/ /\ ~signaled(time_signal)
       /\ \/ time_pc = "wait"
          \/ time_pc \in {"play_on", "play_sleep1", "play_off", "play_sleep2"}
                /\ time_log # << >>

\* lines 297-303, with the order of the timers
FetchSleepTimed ==
    /\ sleep_secs(sleep_state) > 0 => (ScoreSettled /\ TimeSettled)
    /\ FetchSleep

----------------------------------------------------------------------------
(* Specifications *)

InitSys ==
    /\ score_signal = << >>
    /\ time_signal = << >>
    /\ score_pc = "init"
    /\ score = NoScore
    /\ score_log = << >>
    /\ time_pc = "init"
    /\ game_time = Unset
    /\ time_log = << >>
    /\ time_stale = 0
    /\ fetch_pc = "sleep"
    /\ sleep_state = "FirstIteration"
    /\ sleep_in_secs = 0
    /\ outcome = "first"
    /\ feed = None
    /\ lost = FALSE
    /\ score_hung = FALSE
    /\ time_hung = FALSE

\* nothing formatted yet
InitFmtIdle ==
    /\ fmt_pc = "idle"
    /\ fmt_tuple = << 0, 0 >>
    /\ fmt_digits = << >>
    /\ fmt_codes = << >>

\* no driver call made yet
InitDrvIdle ==
    /\ drv_pc = "idle"
    /\ drv_data = EMPTY_DIGITS
    /\ drv_colon = FALSE
    /\ drv_level = 0
    /\ bus = << >>

\* lines 187-196: both pins are constructed with Level::Low; no call made yet
InitLineIdle ==
    /\ line_op = NoLineOp
    /\ line_prog = << >>
    /\ clk = 0
    /\ dio = 0
    /\ peer_low = FALSE
    /\ sampled = << >>
    /\ line_done = NoPrim
    /\ line_last = NoPrim
    /\ line_delayed = TRUE
    /\ line_settled = TRUE

Init ==
    /\ InitSys
    /\ InitDrvIdle
    /\ InitFmtIdle
    /\ InitLineIdle

Next ==
    \/ ScoreTurnOff
    \/ ScoreWait
    \/ ScoreShow
    \/ ScorePulseOn
    \/ ScorePulseSleep
    \/ ScorePulseOff
    \/ TimeTurnOff
    \/ TimeWait
    \/ TimeOff
    \/ TimeStatic
    \/ TimePlayOn
    \/ TimePlaySleep1
    \/ TimePlayOff
    \/ TimePlaySleep2
    \/ FetchSleep
    \/ FetchRequestOk
    \/ FetchRequestErr
    \/ FetchSendOk
    \/ FetchSendErr
    \/ FetchBodyErr
    \/ FetchDecodeErr
    \/ FetchParseErr
    \/ FetchParseOk
    \/ ScoreHang
    \/ TimeHang

Spec == Init /\ [][Next]_vars

\* the steps of update_score and of update_time that return
ScoreNext ==
    \/ ScoreTurnOff
    \/ ScoreWait
    \/ ScoreShow
    \/ ScorePulseOn
    \/ ScorePulseSleep
    \/ ScorePulseOff

TimeNext ==
    \/ TimeTurnOff
    \/ TimeWait
    \/ TimeOff
    \/ TimeStatic
    \/ TimePlayOn
    \/ TimePlaySleep1
    \/ TimePlayOff
    \/ TimePlaySleep2

\* SpecLive: the steps of Spec, where a backoff sleep of 5 s or 30 s ends after the
\* shorter timers of the render tasks, and where a task that can run does run
\* (the executor polls every woken task) and timers fire
NextLive ==
    \/ ScoreNext
    \/ TimeNext
    \/ FetchSleepTimed
    \/ FetchRequestOk
    \/ FetchRequestErr
    \/ FetchSendOk
    \/ FetchSendErr
    \/ FetchBodyErr
    \/ FetchDecodeErr
    \/ FetchParseErr
    \/ FetchParseOk
    \/ ScoreHang
    \/ TimeHang

SpecLive ==
    /\ Init
    /\ [][NextLive]_vars
    /\ WF_vars(ScoreNext)
    /\ WF_vars(TimeNext)
    /\ WF_vars(FetchSleepTimed)

InitDrv ==
    /\ InitSys
    /\ drv_pc = "idle"
    /\ drv_data \in Frames
    /\ drv_colon \in BOOLEAN
    /\ drv_level \in Levels
    /\ bus = << >>
    /\ InitFmtIdle
    /\ InitLineIdle

NextDrv ==
    \/ DrvDisplay
    \/ DrvSetBrightness
    \/ DrvTurnOff

SpecDrv == InitDrv /\ [][NextDrv]_vars

InitFmt ==
    /\ InitSys
    /\ InitDrvIdle
    /\ fmt_pc = "idle"
    /\ fmt_tuple \in FmtTuples
    /\ fmt_digits = << >>
    /\ fmt_codes = << >>
    /\ InitLineIdle

NextFmt ==
    \/ FmtScore
    \/ FmtTime

SpecFmt == InitFmt /\ [][NextFmt]_vars

\* an operation is called with the lines in any state
InitLine ==
    /\ InitSys
    /\ InitDrvIdle
    /\ InitFmtIdle
    /\ line_op \in LineOps
    /\ line_prog = LinesOf(CallsOf(line_op))
    /\ clk \in {0, 1}
    /\ dio \in {0, 1}
    /\ peer_low = FALSE
    /\ sampled = << >>
    /\ line_done = NoPrim
    /\ line_last = NoPrim
    /\ line_delayed = TRUE
    /\ line_settled = TRUE

NextLine ==
    \/ LineSetClk
    \/ LineSetDio
    \/ LineDelay
    \/ LineWaitLow
    \/ PeerPull

SpecLine == InitLine /\ [][NextLine]_vars

----------------------------------------------------------------------------
(* Steps of the fetch loop and of the render tasks, as seen in two states *)

\* the fetch loop took a step
FetchStep == fetch_pc' # fetch_pc

\* the step that ends an iteration at line 365
SuccessStep == fetch_pc = "body" /\ fetch_pc' = "sleep" /\ outcome' = "success"

\* a wait returned
ScoreTake == score_pc = "wait" /\ score_pc' # "wait"
TimeTake == time_pc = "wait" /\ time_pc' # "wait"

BlinkPcs == {"play_on", "play_sleep1", "play_off", "play_sleep2"}

\* the start, stop and byte calls of a bus trace
NumOps(trace, op) == Cardinality({i \in 1..Len(trace) : trace[i].op = op})

IsByte(call) == call.op = "byte"

BusBytes(trace) ==
    LET calls == SelectSeq(trace, IsByte)
    IN  [i \in 1..Len(calls) |-> calls[i].val]

\* starts and stops alternate, beginning with a start and ending with a stop
RECURSIVE Alternates(_, _)
Alternates(trace, open) ==
    IF trace = << >> THEN ~open
    ELSE CASE Head(trace).op = "start" -> ~open /\ Alternates(Tail(trace), TRUE)
           [] Head(trace).op = "stop" -> open /\ Alternates(Tail(trace), FALSE)
           [] OTHER -> open /\ Alternates(Tail(trace), open)

----------------------------------------------------------------------------
(* C1: a failure at any stage of a fetch iteration (request, send, reading   *)
(* the body, UTF-8 decoding, JSON parsing) is recovered inside the loop: the *)
(* policy becomes AfterFailure and the loop goes on; the loop never ends.    *)
C1_FailureRecovered ==
    /\ fetch_pc # "panicked"
    /\ outcome = "failure" => sleep_state = "AfterFailure"

C3_ThreeBalancedFrames ==
    drv_pc = "display" =>
        /\ NumOps(bus, "start") = 3
        /\ NumOps(bus, "stop") = 3
        /\ Alternates(bus, FALSE)

(* C4: for every frame, colon flag and level in 0..7 the bytes display       *)
(* transmits are 0x40, then 0xC0+i and glyph byte i for i = 0..3, then       *)
(* 0x80 + (level | 0x08); the second glyph byte goes out with its top bit    *)
(* set if and only if the colon was requested.                               *)
C4_BytesColonIff ==
    drv_pc = "display" =>
        /\ Len(BusBytes(bus)) = 10
        /\ BusBytes(bus)[1] = 64
        /\ \A i \in 0..3 : BusBytes(bus)[2 + 2 * i] = 192 + i
        /\ \A i \in {0, 2, 3} : BusBytes(bus)[3 + 2 * i] = drv_data[i + 1]
        /\ BusBytes(bus)[5] % 128 = drv_data[2] % 128
        /\ BusBytes(bus)[5] >= 128 <=> drv_colon
        /\ BusBytes(bus)[10] = 128 + 8 + drv_level

(* C4, amended: the same bytes, where the second glyph byte goes out with    *)
(* its top bit OR'd in when the colon was requested, and unchanged when not  *)
(* (so its top bit is set iff the colon was requested or the frame byte      *)
(* already had it set).                                                      *)
C4_BytesColonOr ==
    drv_pc = "display" =>
        /\ Len(BusBytes(bus)) = 10
        /\ BusBytes(bus)[1] = 64
        /\ \A i \in 0..3 : BusBytes(bus)[2 + 2 * i] = 192 + i
        /\ \A i \in {0, 2, 3} : BusBytes(bus)[3 + 2 * i] = drv_data[i + 1]
        /\ BusBytes(bus)[5] = IF drv_colon /\ drv_data[2] < 128
                              THEN drv_data[2] + 128
                              ELSE drv_data[2]
        /\ BusBytes(bus)[10] = 128 + 8 + drv_level

C4_Witness ==
    /\ drv_pc = "display"
    /\ ~drv_colon
    /\ drv_data[2] >= 128
    /\ drv_data[1] # drv_data[3]
    /\ drv_level = DEFAULT_BRIGHTNESS_LEVEL
    /\ BusBytes(bus)[5] = drv_data[2]

(* C5: the sleep that opens an iteration depends only on how the previous    *)
(* iteration ended: 0 s before the first, 30 s after a failure, 5 s after a  *)
(* success; FirstIteration never recurs after the first iteration.           *)
C5_Backoff ==
    /\ fetch_pc \in {"request", "send", "body"} =>
          /\ sleep_in_secs = (CASE outcome = "first" -> 0
                                [] outcome = "failure" -> 30
                                [] outcome = "success" -> 5)
    /\ outcome # "first" => sleep_state # "FirstIteration"

C5_Witness ==
    /\ fetch_pc = "sleep"
    /\ sleep_in_secs = 30
    /\ outcome = "success"
    /\ sleep_state = "AfterSuccess"

(* C6: an iteration that fails publishes nothing: no step of the fetch loop  *)
(* other than the successful end of an iteration changes a mailbox or makes  *)
(* a render task or a display do anything.                                   *)
C6_FailurePublishesNothing ==
    [][FetchStep /\ ~SuccessStep =>
          UNCHANGED << score_signal, time_signal, score_pc, score, score_log,
                       time_pc, game_time, time_log >>]_vars

C6_Witness ==
    /\ outcome = "failure"
    /\ fetch_pc = "sleep"
    /\ signaled(score_signal)
    /\ signaled(time_signal)
    /\ score_log # << >>
    /\ time_log # << >>

(* C7: an iteration that succeeds publishes to both mailboxes: the time      *)
(* mailbox gets the parsed game time unchanged, the score mailbox gets None  *)
(* iff that game time is WillBePlayed and otherwise                          *)
(* Some(my_team_score, opponent_team_score); the policy is AfterSuccess.     *)
C7_SuccessPublishesBoth ==
    [][SuccessStep =>
          /\ feed' # None
          /\ time_signal' = << feed'[1].game_time >>
          /\ score_signal' =
                << IF feed'[1].game_time.tag = "WillBePlayed"
                   THEN << >>
                   ELSE << feed'[1].my_team_score, feed'[1].opponent_team_score >> >>
          /\ sleep_state' = "AfterSuccess"]_vars

C7_Witness ==
    /\ outcome = "success"
    /\ fetch_pc = "sleep"
    /\ feed # None
    /\ feed[1].game_time.tag = "Playing"
    /\ time_signal = << feed[1].game_time >>
    /\ score_signal = << << feed[1].my_team_score, feed[1].opponent_team_score >> >>

(* C8: each mailbox is one slot where the latest value wins: a wait returns  *)
(* only when a value is present, returns the value published last (an        *)
(* overwritten value is never seen) and leaves the slot empty, so the next   *)
(* wait blocks until a further publish.                                      *)
C8_LatestValueWins ==
    [][/\ ScoreTake =>
            /\ score_signal # << >>
            /\ feed # None
            /\ score' = (IF feed[1].game_time.tag = "WillBePlayed"
                         THEN << >>
                         ELSE << feed[1].my_team_score, feed[1].opponent_team_score >>)
            /\ score_signal' = << >>
       /\ TimeTake =>
            /\ time_signal # << >>
            /\ feed # None
            /\ game_time' = feed[1].game_time
            /\ time_signal' = << >>]_vars

C8_Witness ==
    /\ lost
    /\ score_signal = << >>
    /\ time_signal = << >>
    /\ score_pc \in {"show", "pulse_on"}
    /\ time_pc \in {"off", "static", "play_on"}

(* C9: after Playing(m) is taken, and while nothing new is published, the    *)
(* time task emits frames of the same digits that alternate colon-on,        *)
(* colon-off, each followed by one 500 ms sleep; it leaves the loop only     *)
(* when a value has been published.                                          *)
BlinkLogOk ==
    game_time.tag = "Playing" =>
        /\ \A i \in 1..Len(time_log) :
              /\ time_log[i].ev \in {"display", "sleep"}
              /\ time_log[i].ev = "display" =>
                    /\ time_log[i].data = tuple_to_digits(<< game_time.arg[1], 0 >>)
                    /\ time_log[i].n = DEFAULT_BRIGHTNESS_LEVEL
                    /\ i < Len(time_log) => time_log[i + 1] = SleepEv(500)
                    /\ i + 2 <= Len(time_log) =>
                          /\ time_log[i + 2].ev = "display"
                          /\ time_log[i + 2].colon = ~time_log[i].colon
              /\ time_log[i].ev = "sleep" =>
                    /\ time_log[i].n = 500
                    /\ i < Len(time_log) => time_log[i + 1].ev = "display"
        /\ (time_log # << >> /\ Len(time_log) < LogWindow) =>
              time_log[1] = DisplayEv(tuple_to_digits(<< game_time.arg[1], 0 >>),
                                      TRUE, DEFAULT_BRIGHTNESS_LEVEL)
        /\ time_pc = "play_on" => (time_log = << >> \/ time_log[Len(time_log)].ev = "sleep")
        /\ time_pc \in {"play_sleep1", "play_sleep2"} =>
              (time_log # << >> /\ time_log[Len(time_log)].ev = "display"
                 /\ time_log[Len(time_log)].colon = (time_pc = "play_sleep1"))
        /\ time_pc = "play_off" => (time_log # << >> /\ time_log[Len(time_log)].ev = "sleep")

C9_BlinkAlternates ==
    /\ []BlinkLogOk
    /\ [][(time_pc \in BlinkPcs /\ time_pc' \notin BlinkPcs) => signaled(time_signal)]_vars

C9_Witness ==
    /\ time_pc = "play_on"
    /\ ~signaled(time_signal)
    /\ Len(time_log) >= 4
    /\ time_log[1].ev = "display" /\ time_log[1].colon
    /\ time_log[3].ev = "display" /\ ~time_log[3].colon

(* C10: for each None taken from the score mailbox the score task does       *)
(* exactly display(blank, colon on), one wait of 1 s, display(blank, colon   *)
(* off), and goes back to the mailbox wait; it emits nothing more until a    *)
(* publish lets the wait return.                                             *)
PulseLog ==
    << DisplayEv(<< 0, 0, 0, 0 >>, TRUE, DEFAULT_BRIGHTNESS_LEVEL),
       SleepEv(1000),
       DisplayEv(<< 0, 0, 0, 0 >>, FALSE, DEFAULT_BRIGHTNESS_LEVEL) >>

PulseLogOk ==
    /\ score_pc = "pulse_on" => score = None /\ score_log = << >>
    /\ score_pc = "pulse_sleep" => score = None /\ score_log = SubSeq(PulseLog, 1, 1)
    /\ score_pc = "pulse_off" => score = None /\ score_log = SubSeq(PulseLog, 1, 2)
    /\ (score_pc = "wait" /\ score = None) => score_log = PulseLog

C10_OnePulsePerNone ==
    /\ []PulseLogOk
    /\ [][(score_pc = "wait" /\ (score_log' # score_log \/ score_pc' # score_pc))
             => signaled(score_signal)]_vars
    /\ [][(score = None /\ score_pc # "wait") => score' = score]_vars

C10_Witness ==
    /\ score_pc = "wait"
    /\ score = None
    /\ score_log = PulseLog
    /\ signaled(score_signal)
    /\ lost

(* C11: for each value other than Playing taken from the time mailbox the    *)
(* time task makes exactly one driver call and goes back to the mailbox      *)
(* wait: for Played and WillBePlayed(None) a power-off command only (the one *)
(* byte 0x80, no glyph data); for WillBePlayed(Some(t)) and BreakAfter(m)    *)
(* one display with the colon on; it never blinks.                           *)
C11_OneOperation ==
    game_time.tag \in {"Played", "WillBePlayed", "BreakAfter"} =>
        LET off == game_time.tag = "Played"
                      \/ (game_time.tag = "WillBePlayed" /\ game_time.arg = << >>)
        IN  /\ time_pc \in {"wait", IF off THEN "off" ELSE "static"}
            /\ time_pc # "wait" => time_log = << >>
            /\ time_pc = "wait" =>
                  /\ Len(time_log) = 1
                  /\ off => /\ time_log[1].ev = "turn_off"
                            /\ BusBytes(turn_off) = << 128 >>
                  /\ ~off => /\ time_log[1].ev = "display"
                             /\ time_log[1].colon
                             /\ time_log[1].n = DEFAULT_BRIGHTNESS_LEVEL

C11_Witness ==
    /\ time_pc = "wait"
    /\ game_time.tag = "BreakAfter"
    /\ Len(time_log) = 1
    /\ time_log[1].ev = "display"
    /\ signaled(time_signal)

----------------------------------------------------------------------------
(* The formatting the specification documents, written independently of the *)
(* code: formatScore on scores reduced modulo 100, and the seven-segment    *)
(* glyph of a decimal digit from the segments it lights.                    *)

formatScore(home, away) ==
    LET h == home % 100
        a == away % 100
    IN  << IF h < 10 THEN None ELSE Some(h \div 10),
           Some(h % 10),
           IF a < 10 THEN Some(a % 10) ELSE Some(a \div 10),
           IF a < 10 THEN None ELSE Some(a % 10) >>

\* segments lit for the digits 0..9 (index d + 1)
Lit ==
    << {"A", "B", "C", "D", "E", "F"},
       {"B", "C"},
       {"A", "B", "D", "E", "G"},
       {"A", "B", "C", "D", "G"},
       {"B", "C", "F", "G"},
       {"A", "C", "D", "F", "G"},
       {"A", "C", "D", "E", "F", "G"},
       {"A", "B", "C"},
       {"A", "B", "C", "D", "E", "F", "G"},
       {"A", "B", "C", "D", "F", "G"} >>

\* SEG_A = bit 0 .. SEG_G = bit 6
Glyph(d) ==
    (IF "A" \in Lit[d + 1] THEN 1 ELSE 0) + (IF "B" \in Lit[d + 1] THEN 2 ELSE 0)
      + (IF "C" \in Lit[d + 1] THEN 4 ELSE 0) + (IF "D" \in Lit[d + 1] THEN 8 ELSE 0)
      + (IF "E" \in Lit[d + 1] THEN 16 ELSE 0) + (IF "F" \in Lit[d + 1] THEN 32 ELSE 0)
      + (IF "G" \in Lit[d + 1] THEN 64 ELSE 0)

(* C12: for all home and away scores, values of 100 and more included (they  *)
(* wrap modulo 100), the four digit slots the score task renders are         *)
(* formatScore: [tens(home), ones(home), tens(away), ones(away)], slot 1     *)
(* blank when tens(home) = 0 and, when tens(away) = 0, ones(away) moved into *)
(* slot 3 and slot 4 blank; (7,0) gives [None,7,0,None], (12,34) gives       *)
(* [1,2,3,4], (0,0) gives [None,0,0,None].                                   *)
C12_FormatScore ==
    fmt_pc = "score" =>
        /\ fmt_digits = formatScore(fmt_tuple[1], fmt_tuple[2])
        /\ fmt_tuple = << 7, 0 >> => fmt_digits = << None, Some(7), Some(0), None >>
        /\ fmt_tuple = << 12, 34 >> =>
              fmt_digits = << Some(1), Some(2), Some(3), Some(4) >>
        /\ fmt_tuple = << 0, 0 >> => fmt_digits = << None, Some(0), Some(0), None >>

C12_Witness ==
    /\ fmt_pc = "score"
    /\ fmt_tuple = << 107, 100 >>
    /\ fmt_digits = << None, Some(7), Some(0), None >>

(* C16: get_digit_code(None) is 0x00; for every digit d in 0..9              *)
(* get_digit_code(Some(d)) is the seven-segment glyph of d (0 gives          *)
(* 0b00111111, 1 gives 0b00000110, ...), with bit 7 clear; the ten glyphs    *)
(* are pairwise distinct and none is zero.                                   *)
C16_EncodeTable ==
    /\ fmt_pc = "score" =>
          \A i \in 1..4 :
              /\ fmt_digits[i] = None => fmt_codes[i] = 0
              /\ fmt_digits[i] # None =>
                    /\ fmt_codes[i] = Glyph(fmt_digits[i][1])
                    /\ fmt_codes[i] < 128
                    /\ fmt_codes[i] # 0
    /\ get_digit_code(Some(0)) = 63
    /\ get_digit_code(Some(1)) = 6
    /\ \A d \in 0..9 : \A e \in 0..9 :
          d # e => get_digit_code(Some(d)) # get_digit_code(Some(e))

C16_Witness ==
    /\ fmt_pc = "score"
    /\ fmt_digits = << None, Some(9), Some(8), None >>
    /\ fmt_codes = << 0, 111, 127, 0 >>

(* C19: every index with which a render task reads the 16-entry glyph table  *)
(* lies in 0..9, for every score, minute and scheduled time (get_digit_code  *)
(* in the score task, tuple_to_digits in the time task), so the lookup is    *)
(* never out of bounds.                                                      *)
C19_IndexInRange ==
    fmt_pc # "idle" =>
        \A i \in 1..4 :
            fmt_digits[i] # None =>
                /\ fmt_digits[i][1] \in 0..9
                /\ fmt_digits[i][1] + 1 \in DOMAIN DIGITS
                /\ fmt_codes[i] = DIGITS[fmt_digits[i][1] + 1]

C19_Witness ==
    /\ fmt_pc = "time"
    /\ fmt_tuple = << 2147483647, 119 >>
    /\ fmt_digits = << Some(4), Some(7), Some(1), Some(9) >>

(* C18: the fetch loop publishes the score sample and the game time of one   *)
(* result with no suspension point between the two publishes, so no render   *)
(* task runs between them; hence whenever both mailboxes are empty and each  *)
(* has been consumed at least once, the values last consumed by the two      *)
(* render tasks come from the same fetch result (the score consumed is None  *)
(* exactly when the game time consumed is WillBePlayed).                     *)
BothConsumedLatest ==
    (score_signal = << >> /\ time_signal = << >> /\ score # NoScore /\ game_time # Unset)
        => /\ feed # None
           /\ game_time = feed[1].game_time
           /\ score = (IF feed[1].game_time.tag = "WillBePlayed"
                       THEN << >>
                       ELSE << feed[1].my_team_score, feed[1].opponent_team_score >>)
           /\ score = None <=> game_time.tag = "WillBePlayed"

C18_SameFetchResult ==
    /\ []BothConsumedLatest
    /\ [][(score_signal' # score_signal \/ time_signal' # time_signal) /\ FetchStep
             => /\ score_signal' # << >>
                /\ time_signal' # << >>
                /\ UNCHANGED << score_pc, score, score_log, time_pc, game_time, time_log >>]_vars

C18_Witness ==
    /\ score_signal = << >>
    /\ time_signal = << >>
    /\ score = None
    /\ game_time.tag = "WillBePlayed"
    /\ score_pc = "wait"
    /\ time_pc = "wait"
    /\ lost

(* C20: each render task sends a power-off command to its display before its *)
(* first mailbox wait and sends no glyph data and no power-on command until  *)
(* a value has been published to its mailbox; from boot until the first      *)
(* successful fetch both displays stay off, however many fetches fail.       *)
PowerOffOnly(trace) ==
    /\ BusBytes(trace) # << >>
    /\ \A i \in 1..Len(BusBytes(trace)) :
          /\ BusBytes(trace)[i] \div 64 = 2
          /\ And8(BusBytes(trace)[i], 8) = 0

C20_OffUntilPublished ==
    /\ score = NoScore =>
          \/ score_pc = "init" /\ score_log = << >>
          \/ score_pc = "wait" /\ score_log = << TurnOffEv >>
    /\ game_time = Unset =>
          \/ time_pc = "init" /\ time_log = << >>
          \/ time_pc = "wait" /\ time_log = << TurnOffEv >>
    /\ feed = None => score = NoScore /\ game_time = Unset
    /\ PowerOffOnly(turn_off)

C20_Witness ==
    /\ feed = None
    /\ outcome = "failure"
    /\ sleep_in_secs = 30
    /\ fetch_pc = "sleep"
    /\ score_pc = "wait" /\ score_log = << TurnOffEv >>
    /\ time_pc = "wait" /\ time_log = << TurnOffEv >>

----------------------------------------------------------------------------
(* Steps of SpecLine, as seen in two states *)

\* the driver makes the step at the head of line_prog
LineStep == line_prog # << >> /\ line_prog' = Tail(line_prog)

\* the driver writes a pin
LineWrite == LineStep /\ Head(line_prog).k \in {"clk", "dio"}

(* C13: write_byte(b) presents the eight bits of b least-significant bit     *)
(* first, one bit per clock pulse, and writes the data line only while the   *)
(* clock is low; after the eighth bit it releases the data line and does not *)
(* return until the peer has pulled the data line low; there is no timeout:  *)
(* while the peer does not pull it low, write_byte does not return.          *)
ByteSampled ==
    line_done.k = "wait_low" =>
        /\ Len(sampled) = 9
        /\ \A j \in 1..8 :
              sampled[j] = (IF And8(line_done.d, 2 ^ (j - 1)) # 0 THEN 1 ELSE 0)

AwaitsAck ==
    (line_prog # << >> /\ Head(line_prog).k = "wait_low") =>
        /\ dio = 1
        /\ clk = 1
        /\ Len(sampled) = 9

C13_WriteByte ==
    /\ []ByteSampled
    /\ []AwaitsAck
    /\ [][(LineWrite /\ Head(line_prog).f = "write_byte" /\ Head(line_prog).k = "dio")
             => clk = 0]_vars
    /\ [][(LineStep /\ Head(line_prog).k = "wait_low") => peer_low]_vars
    /\ [][(line_prog # << >> /\ Head(line_prog).k = "wait_low" /\ ~peer_low)
             => line_prog' = line_prog]_vars

C13_Witness ==
    /\ line_op = [op |-> "write_byte", arg |-> << 77 >>]
    /\ line_prog = << >>
    /\ sampled = << 1, 0, 1, 1, 0, 0, 1, 0, 1 >>
    /\ peer_low

(* C14: in every driver operation and every composition of them, any two     *)
(* consecutive changes of line state, clock or data, are separated by a      *)
(* delay; no two line writes happen back to back without a delay between.    *)
C14_DelayBetweenChanges ==
    [][(clk' # clk \/ dio' # dio) => line_settled]_vars

(* C14, amended: any two consecutive line writes are separated by a delay,   *)
(* except the first two writes of start(): it sets the clock high and then   *)
(* the data line high back to back, and delays only after both.              *)
C14_DelayExceptInStart ==
    [][(LineWrite /\ ~line_delayed) =>
          /\ Head(line_prog).f = "start"
          /\ Head(line_prog).i = 2
          /\ Head(line_prog).k = "dio"
          /\ Head(line_prog).v = 1
          /\ line_done = line_last
          /\ line_last.f = "start"
          /\ line_last.i = 1
          /\ line_last.k = "clk"
          /\ line_last.v = 1]_vars

C14_Witness ==
    /\ line_op.op = "display"
    /\ line_done.f = "start"
    /\ line_done.i = 2
    /\ ~line_delayed
    /\ ~line_settled
    /\ Len(line_prog) < 500

----------------------------------------------------------------------------
(* Values a mailbox can hold, and what it means that one was rendered *)

ScoreSamples == {None} \cup {<< s, s - 1 >> : s \in 1..MaxScore}

\* update_score took v, the mailbox is empty again, and a frame of v went out
ScoreRendered(v) == score_signal = << >> /\ score = v /\ score_log # << >>

\* update_time took v, the mailbox is empty again, and its driver call was made
TimeRendered(v) == time_signal = << >> /\ game_time = v /\ time_log # << >>

====
